---------------------------- MODULE Spec2Model ----------------------------
(***************************************************************************)
(* A model of the Tiny-C compiler and virtual machine of src/tinyc.py:     *)
(* the lexer (next_ch, next_sym), the recursive-descent parser (program,   *)
(* statement, expr, test, _sum, term, paren_expr), the code generator (c,  *)
(* g, hole, fix), the virtual machine (run, one action per opcode) and the *)
(* main program that reports the globals.                                  *)
(*                                                                         *)
(* Characters are one-character strings, the program text is a sequence of *)
(* characters, and a Python exception is a value the operators pass on.    *)
(***************************************************************************)
EXTENDS Integers, Sequences, FiniteSets, TLC

VARIABLES
    input,      \* the program text on standard input (never changes)
    lex,        \* the lexer's globals: the unread stdin, ch, sym, int_val, id_name
    ast,        \* the Node program() returned
    _object,    \* the bytecode buffer, array('b', [0] * 1000)
    here,       \* the code generator's emission cursor
    _globals,   \* the 26 globals, array('i', [0] * 26)
    stack,      \* run()'s operand stack, array('i', [0] * 1000)
    sp,         \* run()'s stack pointer
    pc,         \* run()'s program counter
    phase,      \* where the main program is
    exc,        \* the uncaught Python exception that ended the process, if any
    stdout,     \* the lines printed to standard output
    stderr,     \* the lines printed to standard error by the program itself
    status      \* the process exit status, -1 while the process runs

vars == <<input, lex, ast, _object, here, _globals, stack, sp, pc, phase, exc,
          stdout, stderr, status>>

-----------------------------------------------------------------------------
(* class Symbol *)
DO_SYM == 0
ELSE_SYM == 1
IF_SYM == 2
WHILE_SYM == 3
LBRA == 4
RBRA == 5
LPAR == 6
RPAR == 7
PLUS == 8
MINUS == 9
LESS == 10
SEMI == 11
EQUAL == 12
INT == 13
ID == 14
EOI == 15

(* class NodeType *)
VAR == 0
CST == 1
ADD == 2
SUB == 3
LT == 4
SET == 5
IF1 == 6
IF2 == 7
WHILE == 8
DO == 9
EMPTY == 10
SEQ == 11
EXPR == 12
PROG == 13

(* class Instruction *)
IFETCH == 0
ISTORE == 1
IPUSH == 2
IPOP == 3
IADD == 4
ISUB == 5
ILT == 6
JZ == 7
JNZ == 8
JMP == 9
HALT == 10

ObjectSize == 1000     \* len(_object)
StackSize == 1000      \* len(stack)
NGlobals == 26         \* len(_globals)
ByteMin == -128        \* array typecode 'b': a signed char
ByteMax == 127
IntMax == 2147483647    \* array typecode 'i': a signed 32-bit int
IntMin == -IntMax - 1

None == "None"
NoExc == [type |-> "none", at |-> "none"]
Raised(type, at) == [type |-> type, at |-> at]   \* an exception and the function raising it

-----------------------------------------------------------------------------
(* Characters. *)
DigitChars == <<"0", "1", "2", "3", "4", "5", "6", "7", "8", "9">>
LowerChars == <<"a", "b", "c", "d", "e", "f", "g", "h", "i", "j", "k", "l", "m",
                "n", "o", "p", "q", "r", "s", "t", "u", "v", "w", "x", "y", "z">>

IsDigit(ch) == \E k \in 1..10 : DigitChars[k] = ch        \* ch >= "0" and ch <= "9"
IsLower(ch) == \E k \in 1..26 : LowerChars[k] = ch        \* ch >= "a" and ch <= "z"
DigitVal(ch) == (CHOOSE k \in 1..10 : DigitChars[k] = ch) - 1   \* ord(ch) - ord("0")
LetterIndex(ch) == (CHOOSE k \in 1..26 : LowerChars[k] = ch) - 1 \* ord(ch) - ord("a")

(* words: the keywords, in the order of their Symbol values, then None. *)
words == << <<"d", "o">>, <<"e", "l", "s", "e">>, <<"i", "f">>,
            <<"w", "h", "i", "l", "e">>, None >>

-----------------------------------------------------------------------------
(* Lexer.  L is the record of the lexer's globals.  L.err is set once the   *)
(* process has left the parser: syntax_error() has ended it, or, with      *)
(* L.rec set as well, a call went deeper than the interpreter's recursion  *)
(* limit and raised RecursionError.  L.depth is the number of frames on    *)
(* the interpreter's stack, the module's own being the first; a call that  *)
(* needs a level beyond RecursionLimit raises RecursionError.              *)

RecursionLimit == 1000               \* sys.getrecursionlimit()

LexInit(text) ==
    [stdin |-> text, ch |-> " ", sym |-> -1, int_val |-> 0, id_name |-> <<>>,
     err |-> FALSE, rec |-> FALSE, depth |-> 1]

syntax_error(L) == [L EXCEPT !.err = TRUE]

recursion_error(L) == [L EXCEPT !.err = TRUE, !.rec = TRUE]

(* A call of one of the parser's functions from the running frame: the     *)
(* callee's frame is one level deeper.                                     *)
Enter(L) ==
    IF L.err THEN L
    ELSE IF L.depth + 1 > RecursionLimit THEN recursion_error(L)
    ELSE [L EXCEPT !.depth = L.depth + 1]

Leave(r) ==                          \* the callee returns r
    IF r.L.err THEN r
    ELSE [r EXCEPT !.L.depth = r.L.depth - 1]

next_ch(L) ==
    IF L.stdin = <<>>
    THEN [L EXCEPT !.ch = "EOF"]
    ELSE [L EXCEPT !.ch = Head(L.stdin), !.stdin = Tail(L.stdin)]

RECURSIVE scan_int(_)
scan_int(L) ==                       \* the digit loop of next_sym
    IF IsDigit(L.ch)
    THEN scan_int(next_ch([L EXCEPT !.int_val = L.int_val * 10 + DigitVal(L.ch)]))
    ELSE L

RECURSIVE scan_id(_)
scan_id(L) ==                        \* the identifier loop of next_sym
    IF IsLower(L.ch) \/ L.ch = "_"
    THEN scan_id(next_ch([L EXCEPT !.id_name = Append(L.id_name, L.ch)]))
    ELSE L

RECURSIVE lookup_word(_, _)
lookup_word(k, name) ==              \* the keyword search loop of next_sym
    IF words[k + 1] # None /\ words[k + 1] # name
    THEN lookup_word(k + 1, name)
    ELSE k

(* next_sym after the identifier loop: the keyword search and its result. *)
classify_id(M) ==
    IF words[lookup_word(0, M.id_name) + 1] = None
    THEN IF Len(M.id_name) = 1
         THEN [M EXCEPT !.sym = ID]
         ELSE syntax_error([M EXCEPT !.sym = lookup_word(0, M.id_name)])
    ELSE [M EXCEPT !.sym = lookup_word(0, M.id_name)]

(* next_sym on a character that is no blank. *)
scan_sym(L) ==
    CASE L.ch = "EOF" -> [L EXCEPT !.sym = EOI]
      [] L.ch = "{" -> [next_ch(L) EXCEPT !.sym = LBRA]
      [] L.ch = "}" -> [next_ch(L) EXCEPT !.sym = RBRA]
      [] L.ch = "(" -> [next_ch(L) EXCEPT !.sym = LPAR]
      [] L.ch = ")" -> [next_ch(L) EXCEPT !.sym = RPAR]
      [] L.ch = "+" -> [next_ch(L) EXCEPT !.sym = PLUS]
      [] L.ch = "-" -> [next_ch(L) EXCEPT !.sym = MINUS]
      [] L.ch = "<" -> [next_ch(L) EXCEPT !.sym = LESS]
      [] L.ch = ";" -> [next_ch(L) EXCEPT !.sym = SEMI]
      [] L.ch = "=" -> [next_ch(L) EXCEPT !.sym = EQUAL]
      [] OTHER ->
           IF IsDigit(L.ch)
           THEN [scan_int([L EXCEPT !.int_val = 0]) EXCEPT !.sym = INT]
           ELSE IF IsLower(L.ch)
           THEN classify_id(scan_id([L EXCEPT !.id_name = <<>>]))
           ELSE syntax_error(L)

(* The blanks next_sym meets before the next token: the character in ch    *)
(* and the ones that follow it on stdin.                                   *)
IsBlank(ch) == ch \in {" ", "\n"}

BlankRun(s) ==
    IF \A i \in 1..Len(s) : IsBlank(s[i]) THEN Len(s)
    ELSE (CHOOSE i \in 1..Len(s) :
              ~IsBlank(s[i]) /\ \A j \in 1..(i - 1) : IsBlank(s[j])) - 1

Blanks(L) == IF IsBlank(L.ch) THEN 1 + BlankRun(L.stdin) ELSE 0

next_chs(L, j) ==                    \* next_ch() called j times
    IF j = 0 THEN L
    ELSE IF j > Len(L.stdin) THEN [L EXCEPT !.ch = "EOF", !.stdin = <<>>]
    ELSE [L EXCEPT !.ch = L.stdin[j], !.stdin = SubSeq(L.stdin, j + 1, Len(L.stdin))]

(* The levels next_sym needs below its own frame for the token that takes  *)
(* L0 to R: one for next_ch() and for the comparisons of the last case,    *)
(* two for an enum member's value (the property and its getter), three     *)
(* when next_ch() reads at the end of stdin (the text layer calls the      *)
(* buffer below it), five for syntax_error() (print and the write under    *)
(* it).  A keyword's sym comes from words and needs no enum member.        *)
TokenLevels(L0, R) ==
    IF R.err THEN 5
    ELSE IF L0.ch # "EOF" /\ R.ch = "EOF" THEN 3
    ELSE IF R.sym \in {DO_SYM, ELSE_SYM, IF_SYM, WHILE_SYM} THEN 1
    ELSE 2

scan_within(L0, R, levels) ==
    IF TokenLevels(L0, R) > levels THEN recursion_error(L0) ELSE R

(* next_sym() called from the frame at L.depth with k blanks ahead.  For   *)
(* each blank it calls next_ch() and then itself, one frame deeper each    *)
(* time, so the call that scans the token runs in frame L.depth + 1 + k.   *)
(* When that frame is beyond the limit, the blanks read before the         *)
(* RecursionError are those of the frames within it.                       *)
skip_blanks(L, k) ==
    IF L.depth + 1 + k > RecursionLimit
    THEN recursion_error(
             next_chs(L, IF RecursionLimit - 1 - L.depth > 0
                         THEN RecursionLimit - 1 - L.depth ELSE 0))
    ELSE scan_within(next_chs(L, k), scan_sym(next_chs(L, k)),
                     RecursionLimit - (L.depth + 1 + k))

next_sym(L) == skip_blanks(L, Blanks(L))

-----------------------------------------------------------------------------
(* Parser.  Every procedure takes the lexer's globals and returns them     *)
(* with the Node it built; once L.err is set the process has ended and     *)
(* nothing more is done.                                                   *)

NoNode == [kind |-> -1]
Ret(L, x) == [L |-> L, x |-> x]

(* if sym == s: next_sym() else: syntax_error() *)
expect(L, s) ==
    IF L.err THEN L
    ELSE IF L.sym = s THEN next_sym(L) ELSE syntax_error(L)

(* x = new_node(k); x.o1 = t; x.o2 = q.x, q being what the procedure that  *)
(* parsed the second operand returned.                                     *)
node2(k, t, q) ==
    IF q.L.err THEN Ret(q.L, NoNode)
    ELSE Ret(q.L, [kind |-> k, o1 |-> t, o2 |-> q.x])

RECURSIVE paren_expr(_), term(_), sum_loop(_, _), sum_step(_, _, _), _sum(_),
          test(_), test_rest(_), expr(_), expr_rest(_), block_loop(_, _),
          block_step(_, _), if_then(_), if_else(_, _), while_body(_),
          do_cond(_), statement(_)

paren_close(r) ==                    \* paren_expr after x = expr()
    IF r.L.err THEN Ret(r.L, NoNode)
    ELSE IF r.L.sym = RPAR
         THEN Ret(next_sym(r.L), r.x)
         ELSE Ret(syntax_error(r.L), NoNode)

paren_expr(L) == Leave(paren_close(expr(expect(Enter(L), LPAR))))

term_body(L) ==
    IF L.err THEN Ret(L, NoNode)
    ELSE IF L.sym = ID
         THEN Ret(next_sym(L), [kind |-> VAR, val |-> LetterIndex(L.id_name[1])])
         ELSE IF L.sym = INT
         THEN Ret(next_sym(L), [kind |-> CST, val |-> L.int_val])
         ELSE paren_expr(L)

term(L) == Leave(term_body(Enter(L)))

sum_step(k, t, r) ==                 \* x.o1 = t; x.o2 = term(); loop again
    sum_loop(r.L, [kind |-> k, o1 |-> t, o2 |-> r.x])

sum_loop(L, x) ==                    \* the while loop of _sum
    IF L.err THEN Ret(L, NoNode)
    ELSE IF L.sym \in {PLUS, MINUS}
         THEN sum_step(IF L.sym = PLUS THEN ADD ELSE SUB, x, term(next_sym(L)))
         ELSE Ret(L, x)

sum_start(r) == sum_loop(r.L, r.x)   \* _sum after x = term()
_sum(L) == Leave(sum_start(term(Enter(L))))

test_rest(r) ==                      \* test after x = _sum()
    IF r.L.err THEN Ret(r.L, NoNode)
    ELSE IF r.L.sym = LESS
         THEN node2(LT, r.x, _sum(next_sym(r.L)))
         ELSE r

test(L) == Leave(test_rest(_sum(Enter(L))))

expr_rest(r) ==                      \* expr after x = test()
    IF r.L.err THEN Ret(r.L, NoNode)
    ELSE IF r.x.kind = VAR /\ r.L.sym = EQUAL
         THEN node2(SET, r.x, expr(next_sym(r.L)))
         ELSE r

expr_body(L) ==
    IF L.err THEN Ret(L, NoNode)
    ELSE IF L.sym # ID THEN test(L)
    ELSE expr_rest(test(L))

expr(L) == Leave(expr_body(Enter(L)))

block_step(x, r) ==                  \* x.o1 = t; x.o2 = statement(); loop again
    block_loop(r.L, [kind |-> SEQ, o1 |-> x, o2 |-> r.x])

block_loop(L, x) ==                  \* the while sym != RBRA loop of statement
    IF L.err THEN Ret(L, NoNode)
    ELSE IF L.sym # RBRA
         THEN block_step(x, statement(L))
         ELSE Ret(next_sym(L), x)

if2_node_swapped(cond, s1, r) ==     \* if2_node with the two branches exchanged
    IF r.L.err THEN Ret(r.L, NoNode)
    ELSE Ret(r.L, [kind |-> IF2, o1 |-> cond, o2 |-> r.x, o3 |-> s1])

if2_node(cond, s1, r) ==             \* x.kind = IF2; x.o3 = statement()
    IF r.L.err THEN Ret(r.L, NoNode)
    ELSE Ret(r.L, [kind |-> IF2, o1 |-> cond, o2 |-> s1, o3 |-> r.x])

if_else(cond, r) ==                  \* the if branch after x.o2 = statement()
    IF r.L.err THEN Ret(r.L, NoNode)
    ELSE IF r.L.sym = ELSE_SYM
         THEN if2_node(cond, r.x, statement(next_sym(r.L)))
         ELSE Ret(r.L, [kind |-> IF1, o1 |-> cond, o2 |-> r.x])

if_then(r) == if_else(r.x, statement(r.L))          \* after x.o1 = paren_expr()

while_body(r) == node2(WHILE, r.x, statement(r.L))  \* after x.o1 = paren_expr()

do_end(body, r) ==                   \* the do branch after x.o2 = paren_expr()
    IF r.L.err THEN Ret(r.L, NoNode)
    ELSE Ret(expect(r.L, SEMI), [kind |-> DO, o1 |-> body, o2 |-> r.x])

do_cond(r) ==                        \* the do branch after x.o1 = statement()
    do_end(r.x, paren_expr(expect(r.L, WHILE_SYM)))

expr_end(r) ==                       \* the last branch after x.o1 = expr()
    IF r.L.err THEN Ret(r.L, NoNode)
    ELSE Ret(expect(r.L, SEMI), [kind |-> EXPR, o1 |-> r.x])

statement_body(L) ==
    IF L.err THEN Ret(L, NoNode)
    ELSE CASE L.sym = IF_SYM -> if_then(paren_expr(next_sym(L)))
           [] L.sym = WHILE_SYM -> while_body(paren_expr(next_sym(L)))
           [] L.sym = DO_SYM -> do_cond(statement(next_sym(L)))
           [] L.sym = SEMI -> Ret(next_sym(L), [kind |-> EMPTY])
           [] L.sym = LBRA -> block_loop(next_sym(L), [kind |-> EMPTY])
           [] OTHER -> expr_end(expr(L))

statement(L) == Leave(statement_body(Enter(L)))

program_end(r) ==                    \* program after x.o1 = statement()
    IF r.L.err THEN Ret(r.L, NoNode)
    ELSE IF r.L.sym # EOI
         THEN Ret(syntax_error(r.L), NoNode)
         ELSE Ret(r.L, [kind |-> PROG, o1 |-> r.x])

program(L) == Leave(program_end(statement(next_sym(Enter(L)))))

-----------------------------------------------------------------------------
(* Code generator.  S is the record of the generator's globals (_object,   *)
(* here); S.exc is the exception that ended the process, if any.  An array *)
(* checks the index first and the value second.                            *)

InByte(v) == ByteMin <= v /\ v <= ByteMax

g(S, v) ==
    IF S.exc # NoExc THEN S
    ELSE IF S.here >= ObjectSize
         THEN [S EXCEPT !.exc = Raised("IndexError", "g")]
         ELSE IF ~InByte(v)
         THEN [S EXCEPT !.exc = Raised("OverflowError", "g")]
         ELSE [S EXCEPT !.obj[S.here] = v, !.here = S.here + 1]

hole(S) ==                           \* S.p is the value hole() returns
    IF S.exc # NoExc THEN [S |-> S, p |-> S.here]
    ELSE [S |-> [S EXCEPT !.here = S.here + 1], p |-> S.here]

fix_from_next(S, src, dst) ==        \* fix counting from the byte after the hole
    IF S.exc # NoExc THEN S
    ELSE IF src >= ObjectSize
         THEN [S EXCEPT !.exc = Raised("IndexError", "fix")]
         ELSE IF ~InByte(dst - (src + 1))
         THEN [S EXCEPT !.exc = Raised("OverflowError", "fix")]
         ELSE [S EXCEPT !.obj[src] = dst - (src + 1)]

fix_absolute(S, src, dst) ==         \* fix storing the target address itself
    IF S.exc # NoExc THEN S
    ELSE IF src >= ObjectSize
         THEN [S EXCEPT !.exc = Raised("IndexError", "fix")]
         ELSE IF ~InByte(dst)
         THEN [S EXCEPT !.exc = Raised("OverflowError", "fix")]
         ELSE [S EXCEPT !.obj[src] = dst]

fix(S, src, dst) ==
    IF S.exc # NoExc THEN S
    ELSE IF src >= ObjectSize
         THEN [S EXCEPT !.exc = Raised("IndexError", "fix")]
         ELSE IF ~InByte(dst - src)
         THEN [S EXCEPT !.exc = Raised("OverflowError", "fix")]
         ELSE [S EXCEPT !.obj[src] = dst - src]

RECURSIVE c(_, _)
c(x, S) ==
    IF S.exc # NoExc THEN S
    ELSE CASE x.kind = VAR -> g(g(S, IFETCH), x.val)
           [] x.kind = CST -> g(g(S, IPUSH), x.val)
           [] x.kind = ADD -> g(c(x.o2, c(x.o1, S)), IADD)
           [] x.kind = SUB -> g(c(x.o2, c(x.o1, S)), ISUB)
           [] x.kind = LT -> g(c(x.o2, c(x.o1, S)), ILT)
           [] x.kind = SET -> g(g(c(x.o2, S), ISTORE), x.o1.val)
           [] x.kind = IF1 ->
                LET p1 == hole(g(c(x.o1, S), JZ))
                    S2 == c(x.o2, p1.S)
                IN  fix(S2, p1.p, S2.here)
           [] x.kind = IF2 ->
                LET p1 == hole(g(c(x.o1, S), JZ))
                    p2 == hole(g(c(x.o2, p1.S), JMP))
                    S3 == c(x.o3, fix(p2.S, p1.p, p2.S.here))
                IN  fix(S3, p2.p, S3.here)
           [] x.kind = WHILE ->
                LET p1 == S.here
                    p2 == hole(g(c(x.o1, S), JZ))
                    p3 == hole(g(c(x.o2, p2.S), JMP))
                    S3 == fix(p3.S, p3.p, p1)
                IN  fix(S3, p2.p, S3.here)
           [] x.kind = DO ->
                LET p1 == S.here
                    p2 == hole(g(c(x.o2, c(x.o1, S)), JNZ))
                IN  fix(p2.S, p2.p, p1)
           [] x.kind = EMPTY -> S
           [] x.kind = SEQ -> c(x.o2, c(x.o1, S))
           [] x.kind = EXPR -> g(c(x.o1, S), IPOP)
           [] x.kind = PROG -> g(c(x.o1, S), HALT)

-----------------------------------------------------------------------------
(* Python's indexing: a[i] for -len <= i < len, counted from the end when  *)
(* i is negative, IndexError otherwise.                                    *)
InRange(i, n) == -n <= i /\ i < n
At(i, n) == IF i < 0 THEN i + n ELSE i

(* str(n) for an int n, as a sequence of characters. *)
RECURSIVE NatStr(_)
NatStr(n) ==
    IF n < 10 THEN <<DigitChars[n + 1]>>
    ELSE Append(NatStr(n \div 10), DigitChars[(n % 10) + 1])

RECURSIVE NegStr(_)
NegStr(n) ==                         \* the digits of -n, for n <= 0
    LET d == (10 - (n % 10)) % 10
        rest == (n + d) \div 10
    IN  IF rest = 0 THEN <<DigitChars[d + 1]>>
        ELSE Append(NegStr(rest), DigitChars[d + 1])

str(n) == IF n < 0 THEN <<"-">> \o NegStr(n) ELSE NatStr(n)

OrdA == 97                           \* ord('a')

(* The lines the main program prints for the globals G, i = from..25. *)
RECURSIVE report(_, _)
report(G, i) ==
    IF i >= NGlobals THEN <<>>
    ELSE IF G[i] # 0
         THEN <<str(OrdA + i) \o <<" ", "=", " ">> \o str(G[i])>> \o report(G, i + 1)
         ELSE report(G, i + 1)

-----------------------------------------------------------------------------
(* The program texts the model is run on.  The first six are the           *)
(* invocations of the module docstring (echo appends the newline).         *)

(* a=b=c=2<3;\n *)
Chain3 ==
    <<"a", "=", "b", "=", "c", "=", "2", "<", "3", ";", "\n">>

(* { i=1; while (i<100) i=i+i; }\n *)
Doubling ==
    <<"{", " ", "i", "=", "1", ";", " ", "w", "h", "i", "l", "e", " ", "(",
      "i", "<", "1", "0", "0", ")", " ", "i", "=", "i", "+", "i", ";", " ",
      "}", "\n">>

(* { i=125; j=100; while (i-j) if (i<j) j=j-i; else i=i-j; }\n *)
Gcd ==
    <<"{", " ", "i", "=", "1", "2", "5", ";", " ", "j", "=", "1", "0", "0",
      ";", " ", "w", "h", "i", "l", "e", " ", "(", "i", "-", "j", ")", " ",
      "i", "f", " ", "(", "i", "<", "j", ")", " ", "j", "=", "j", "-", "i",
      ";", " ", "e", "l", "s", "e", " ", "i", "=", "i", "-", "j", ";", " ",
      "}", "\n">>

(* { i=1; do i=i+10; while (i<50); }\n *)
DoLoop ==
    <<"{", " ", "i", "=", "1", ";", " ", "d", "o", " ", "i", "=", "i", "+",
      "1", "0", ";", " ", "w", "h", "i", "l", "e", " ", "(", "i", "<", "5",
      "0", ")", ";", " ", "}", "\n">>

(* { i=1; while ((i=i+10)<50) ; }\n *)
AssignCond ==
    <<"{", " ", "i", "=", "1", ";", " ", "w", "h", "i", "l", "e", " ", "(",
      "(", "i", "=", "i", "+", "1", "0", ")", "<", "5", "0", ")", " ", ";",
      " ", "}", "\n">>

(* { i=7; if (i<5) x=1; if (i<10) y=2; }\n *)
TwoIfs ==
    <<"{", " ", "i", "=", "7", ";", " ", "i", "f", " ", "(", "i", "<", "5",
      ")", " ", "x", "=", "1", ";", " ", "i", "f", " ", "(", "i", "<", "1",
      "0", ")", " ", "y", "=", "2", ";", " ", "}", "\n">>

(* { i=1; while (1) i=i+i; }\n *)
Runaway ==
    <<"{", " ", "i", "=", "1", ";", " ", "w", "h", "i", "l", "e", " ", "(",
      "1", ")", " ", "i", "=", "i", "+", "i", ";", " ", "}", "\n">>


(* { if (3-5) a=1; else b=1; if (5-3) c=1; }\n *)
NegCond ==
    <<"{", " ", "i", "f", " ", "(", "3", "-", "5", ")", " ", "a", "=", "1",
      ";", " ", "e", "l", "s", "e", " ", "b", "=", "1", ";", " ", "i", "f",
      " ", "(", "5", "-", "3", ")", " ", "c", "=", "1", ";", " ", "}",
      "\n">>

Examples == {Chain3, Doubling, Gcd, DoLoop, AssignCond, TwoIfs}

(* Assignment chains v1=v2=...=vn=K; of up to MaxChain variables. *)
MaxChain == 3
ChainVars == {"a", "b", "z"}
ChainValues ==
    { <<"0">>, <<"7">>, <<"1", "2", "7">>, <<"1", "2", "8">>, <<"3", "0", "0">>,
      <<"2", "<", "3">>, <<"3", "-", "5">>, <<"(", "6", "+", "1", ")">> }

RECURSIVE ChainTexts(_)
ChainTexts(n) ==
    IF n = 0 THEN {K \o <<";">> : K \in ChainValues}
    ELSE {<<v, "=">> \o t : v \in ChainVars, t \in ChainTexts(n - 1)}

ChainInputs == UNION {ChainTexts(n) : n \in 1..MaxChain}

(* Every text of up to MaxLen characters over ShortChars. *)
MaxLen == 3
ShortChars == {"a", "1", "=", ";", "(", ")"}

RECURSIVE TextsOfLen(_)
TextsOfLen(n) ==
    IF n = 0 THEN {<<>>}
    ELSE {Append(t, ch) : t \in TextsOfLen(n - 1), ch \in ShortChars}

ShortInputs == UNION {TextsOfLen(n) : n \in 0..MaxLen}

(* Statements nested up to MaxDepth deep, built from two expressions and   *)
(* two simple statements; a stays in {0, 1}, so every run is finite-state. *)
MaxDepth == 1
GenExprs == { <<"a">>, <<"a", "=", "1", "-", "a">> }
GenLeaves == { <<";">>, <<"a", "=", "1", "-", "a", ";">> }

T_if == <<"i", "f", " ", "(">>
T_else == <<" ", "e", "l", "s", "e", " ">>
T_while == <<"w", "h", "i", "l", "e", " ", "(">>
T_do == <<"d", "o", " ">>

RECURSIVE GenStmts(_)
GenStmts(d) ==
    IF d = 0 THEN GenLeaves
    ELSE LET P == GenStmts(d - 1)
             Pairs == (P \X GenLeaves) \cup (GenLeaves \X P)
         IN  P
             \cup {T_if \o e \o <<")", " ">> \o s1 : e \in GenExprs, s1 \in P}
             \cup {T_if \o e \o <<")", " ">> \o pr[1] \o T_else \o pr[2] :
                     e \in GenExprs, pr \in Pairs}
             \cup {T_while \o e \o <<")", " ">> \o s1 : e \in GenExprs, s1 \in P}
             \cup {T_do \o s1 \o <<" ">> \o T_while \o e \o <<")", ";">> :
                     e \in GenExprs, s1 \in P}
             \cup {<<"{", " ">> \o pr[1] \o <<" ">> \o pr[2] \o <<" ", "}">> :
                     pr \in Pairs}

GenInputs == GenStmts(MaxDepth)

(* The docstring programs with one character deleted, and with a token     *)
(* appended after the complete statement.                                  *)
Deletions(t) ==
    {SubSeq(t, 1, k - 1) \o SubSeq(t, k + 1, Len(t)) : k \in 1..Len(t)}

Trailers ==
    { <<";">>, <<"a">>, <<"1">>, <<"}">>, <<")">>, <<"a", "=", "1", ";">>,
      <<"{", "}">>, <<"e", "l", "s", "e", " ", ";">> }

DeletedInputs == UNION {Deletions(t) : t \in Examples}
AppendedInputs == {t \o s : t \in Examples, s \in Trailers}

(* Blocks of MaxBody - 1 and MaxBody statements a=a+1; (8 bytes each) under *)
(* an if, a while and a do: the branches over them span about 128 bytes.   *)
MaxBody == 16
Stmt_inc == <<"a", "=", "a", "+", "1", ";">>
T_less1 == <<"a", "<", "1", ")">>

RECURSIVE Repeat(_, _)
Repeat(t, n) == IF n = 0 THEN <<>> ELSE t \o Repeat(t, n - 1)

LongBody(n) == <<"{">> \o Repeat(Stmt_inc, n) \o <<"}">>
LongIf(n) == T_if \o <<"a", ")", " ">> \o LongBody(n)
LongWhile(n) == T_while \o T_less1 \o <<" ">> \o LongBody(n)
LongDo(n) == T_do \o LongBody(n) \o <<" ">> \o T_while \o T_less1 \o <<";">>
LongInputs ==
    UNION {{LongIf(n), LongWhile(n), LongDo(n)} : n \in (MaxBody - 1)..MaxBody}

(* x = t1 op t2 op ... tn; for up to MaxTerms one-digit terms and op + or -. *)
MaxTerms == 3
TermDigits == {"7", "2", "1"}
SumOps == {"+", "-"}

RECURSIVE SumBodies(_)
SumBodies(n) ==
    IF n = 1 THEN {<<d>> : d \in TermDigits}
    ELSE {b \o <<o, d>> : b \in SumBodies(n - 1), o \in SumOps, d \in TermDigits}

SumInputs ==
    {<<"x", "=">> \o b \o <<";">> : b \in UNION {SumBodies(n) : n \in 1..MaxTerms}}

(* Assignments to the left-hand sides the grammar has no rule for, next to *)
(* the ones it has.                                                        *)
LhsTexts ==
    { <<"a">>, <<"(", "a", ")">>, <<"(", "(", "a", ")", ")">>, <<"1">>,
      <<"a", "+", "b">>, <<"a", "-", "1">>, <<"a", "<", "b">>,
      <<"(", "a", "=", "1", ")">>, <<"a", "=", "(", "b", ")">>,
      <<"a", "=", "1">>, <<"a", "=", "b", "<", "c">>, <<"a", "=", "b">>,
      <<"b", "+", "(", "a", ")">> }
AssignInputs ==
    {l \o <<"=", "1", ";">> : l \in LhsTexts}
    \cup {<<"a", "=", "b", "+", "(", "c", "=", "1", ")", ";">>,
          <<"i", "f", " ", "(", "a", "=", "1", ")", " ", "b", "=", "2", ";">>}

(* { a=A; b=B; if (a) if (b) c=1; else d=1; } for one-digit A and B. *)
CondDigits == {"0", "1", "7"}
T_set_a == <<"{", " ", "a", "=">>
T_set_b == <<";", " ", "b", "=">>
T_dangling ==
    <<";", " ">> \o T_if \o <<"a", ")", " ">> \o T_if \o <<"b", ")", " ">>
    \o <<"c", "=", "1", ";">> \o T_else \o <<"d", "=", "1", ";", " ", "}">>
DanglingText(A, B) == T_set_a \o <<A>> \o T_set_b \o <<B>> \o T_dangling
DanglingInputs == {DanglingText(A, B) : A \in CondDigits, B \in CondDigits}

(* Blocks that end early, or meet a token no statement starts with. *)
BlockInputs ==
    { <<"{">>, <<"{", " ">>, <<"{", ";">>, <<"{", "a", "=", "1", ";">>,
      <<"{", ")">>, <<"{", "=", "}">>, <<"{", "e", "l", "s", "e", "}">>,
      <<"{", "+", "}">>, <<"{", "<">>, <<"{", "}">>, <<"{", "{", "}">>,
      <<"{", ";", "}">>, <<"}">>, <<"{", "{", ";", "}", "a", ";", "}">>,
      <<"i", "f", " ", "(", "a", ")", " ", "}">>, <<"d", "o", " ">>,
      <<"w", "h", "i", "l", "e", " ", "(", "a", ")">> }

(* Runs of blanks about as long as the recursion limit: before a           *)
(* statement, after an open parenthesis, between a parenthesised           *)
(* left-hand side and its "=".  The shorter run of each pair is scanned,   *)
(* the longer one is not.                                                  *)
BlankText(n) == [i \in 1..n |-> " "]
T_a1 == <<"a", "=", "1", ";">>
BlankInputs ==
    {BlankText(n) \o T_a1 : n \in {RecursionLimit - 6, RecursionLimit - 5}}
    \cup {<<"(">> \o BlankText(n) : n \in {RecursionLimit - 11, RecursionLimit - 10}}
    \cup {<<"(", "a", ")">> \o BlankText(n) \o <<"=", "1", ";">> :
              n \in {RecursionLimit - 11, RecursionLimit - 10}}

Inputs ==
    Examples \cup {Runaway, NegCond} \cup ChainInputs \cup ShortInputs \cup GenInputs
    \cup DeletedInputs \cup AppendedInputs \cup LongInputs
    \cup SumInputs \cup AssignInputs \cup DanglingInputs
    \cup BlockInputs \cup BlankInputs

-----------------------------------------------------------------------------
(* The state after construction (module level, before __main__ runs). *)

Zeros(n) == [k \in 0..(n - 1) |-> 0]

Init ==
    /\ input \in Inputs
    /\ lex = LexInit(input)
    /\ ast = NoNode
    /\ _object = Zeros(ObjectSize)
    /\ here = 0
    /\ _globals = Zeros(NGlobals)
    /\ stack = Zeros(StackSize)
    /\ sp = 0
    /\ pc = 0
    /\ phase = "start"
    /\ exc = NoExc
    /\ stdout = <<>>
    /\ stderr = <<>>
    /\ status = -1

(* An uncaught exception ends the process with a traceback and status 1. *)
Die(e) ==
    /\ phase' = "exit"
    /\ exc' = e
    /\ status' = 1

(* program(): line 466, the argument of c.  A syntax error prints the      *)
(* message and exits with status 1; a RecursionError is not caught and     *)
(* ends the process with status 1.                                         *)
Program ==
    /\ phase = "start"
    /\ LET r == program(lex)
       IN  /\ lex' = r.L
           /\ IF r.L.rec
              THEN /\ Die(Raised("RecursionError", "program"))
                   /\ UNCHANGED <<ast, stderr>>
              ELSE IF r.L.err
              THEN /\ stderr' = Append(stderr, "syntax error")
                   /\ status' = 1
                   /\ phase' = "exit"
                   /\ UNCHANGED <<ast, exc>>
              ELSE /\ ast' = r.x
                   /\ phase' = "parsed"
                   /\ UNCHANGED <<stderr, status, exc>>
    /\ UNCHANGED <<input, _object, here, _globals, stack, sp, pc, stdout>>

(* c(program()): line 466, the call of c on the Node program() returned. *)
Compile ==
    /\ phase = "parsed"
    /\ LET S == c(ast, [obj |-> _object, here |-> here, exc |-> NoExc])
       IN  /\ _object' = S.obj
           /\ here' = S.here
           /\ IF S.exc # NoExc
              THEN Die(S.exc)
              ELSE phase' = "compiled" /\ UNCHANGED <<exc, status>>
    /\ UNCHANGED <<input, lex, ast, _globals, stack, sp, pc, stdout, stderr>>

(* Lines 468-470 and 416-417: the globals are zeroed and run() starts. *)
StartRun ==
    /\ phase = "compiled"
    /\ _globals' = Zeros(NGlobals)
    /\ stack' = Zeros(StackSize)
    /\ sp' = 0
    /\ pc' = 0
    /\ phase' = "run"
    /\ UNCHANGED <<input, lex, ast, _object, here, exc, stdout, stderr, status>>

-----------------------------------------------------------------------------
(* Virtual machine: one action per case of run()'s match.  The opcode is   *)
(* _object[pc]; the cases read their operand at pc + 1, pc having been     *)
(* incremented on line 420.                                                *)

Byte(a) == _object[At(a, ObjectSize)]
Slot(k) == stack[At(k, StackSize)]
Op == IF phase = "run" /\ InRange(pc, ObjectSize) THEN Byte(pc) ELSE -1

Fault(type) ==                       \* an exception raised in a case of run()
    /\ Die(Raised(type, "run"))
    /\ pc' = pc + 1
    /\ UNCHANGED <<_globals, stack, sp>>

AddFits(a, b) == IF b >= 0 THEN a <= IntMax - b ELSE a >= IntMin - b
SubFits(a, b) == IF b >= 0 THEN a >= IntMin + b ELSE a <= IntMax + b

run_IFETCH ==
    /\ Op = IFETCH
    /\ IF InRange(pc + 1, ObjectSize) /\ InRange(Byte(pc + 1), NGlobals)
          /\ InRange(sp, StackSize)
       THEN /\ stack' = [stack EXCEPT ![At(sp, StackSize)] =
                                         _globals[At(Byte(pc + 1), NGlobals)]]
            /\ sp' = sp + 1
            /\ pc' = pc + 2
            /\ UNCHANGED <<_globals, phase, exc, status>>
       ELSE Fault("IndexError")
    /\ UNCHANGED <<input, lex, ast, _object, here, stdout, stderr>>

run_ISTORE_pops ==                   \* run_ISTORE popping the value it stored
    /\ Op = ISTORE
    /\ _globals' = [_globals EXCEPT ![At(Byte(pc + 1), NGlobals)] = Slot(sp - 1)]
    /\ sp' = sp - 1
    /\ pc' = pc + 2
    /\ UNCHANGED <<stack, phase, exc, status>>
    /\ UNCHANGED <<input, lex, ast, _object, here, stdout, stderr>>

run_ISTORE ==
    /\ Op = ISTORE
    /\ IF InRange(pc + 1, ObjectSize) /\ InRange(Byte(pc + 1), NGlobals)
          /\ InRange(sp - 1, StackSize)
       THEN /\ _globals' = [_globals EXCEPT ![At(Byte(pc + 1), NGlobals)] =
                                               Slot(sp - 1)]
            /\ pc' = pc + 2
            /\ UNCHANGED <<stack, sp, phase, exc, status>>
       ELSE Fault("IndexError")
    /\ UNCHANGED <<input, lex, ast, _object, here, stdout, stderr>>

run_IPUSH ==
    /\ Op = IPUSH
    /\ IF InRange(pc + 1, ObjectSize) /\ InRange(sp, StackSize)
       THEN /\ stack' = [stack EXCEPT ![At(sp, StackSize)] = Byte(pc + 1)]
            /\ sp' = sp + 1
            /\ pc' = pc + 2
            /\ UNCHANGED <<_globals, phase, exc, status>>
       ELSE Fault("IndexError")
    /\ UNCHANGED <<input, lex, ast, _object, here, stdout, stderr>>

run_IPOP ==
    /\ Op = IPOP
    /\ sp' = sp - 1
    /\ pc' = pc + 1
    /\ UNCHANGED <<input, lex, ast, _object, here, _globals, stack, phase, exc,
                   stdout, stderr, status>>

run_IADD ==
    /\ Op = IADD
    /\ IF ~(InRange(sp - 2, StackSize) /\ InRange(sp - 1, StackSize))
       THEN Fault("IndexError")
       ELSE IF ~AddFits(Slot(sp - 2), Slot(sp - 1))
       THEN Fault("OverflowError")
       ELSE /\ stack' = [stack EXCEPT ![At(sp - 2, StackSize)] =
                                         Slot(sp - 2) + Slot(sp - 1)]
            /\ sp' = sp - 1
            /\ pc' = pc + 1
            /\ UNCHANGED <<_globals, phase, exc, status>>
    /\ UNCHANGED <<input, lex, ast, _object, here, stdout, stderr>>

run_ISUB_swapped ==                  \* run_ISUB computing b - a
    /\ Op = ISUB
    /\ stack' = [stack EXCEPT ![At(sp - 2, StackSize)] = Slot(sp - 1) - Slot(sp - 2)]
    /\ sp' = sp - 1
    /\ pc' = pc + 1
    /\ UNCHANGED <<_globals, phase, exc, status>>
    /\ UNCHANGED <<input, lex, ast, _object, here, stdout, stderr>>

run_ISUB ==
    /\ Op = ISUB
    /\ IF ~(InRange(sp - 2, StackSize) /\ InRange(sp - 1, StackSize))
       THEN Fault("IndexError")
       ELSE IF ~SubFits(Slot(sp - 2), Slot(sp - 1))
       THEN Fault("OverflowError")
       ELSE /\ stack' = [stack EXCEPT ![At(sp - 2, StackSize)] =
                                         Slot(sp - 2) - Slot(sp - 1)]
            /\ sp' = sp - 1
            /\ pc' = pc + 1
            /\ UNCHANGED <<_globals, phase, exc, status>>
    /\ UNCHANGED <<input, lex, ast, _object, here, stdout, stderr>>

run_ILT ==
    /\ Op = ILT
    /\ IF ~(InRange(sp - 2, StackSize) /\ InRange(sp - 1, StackSize))
       THEN Fault("IndexError")
       ELSE /\ stack' = [stack EXCEPT ![At(sp - 2, StackSize)] =
                             IF Slot(sp - 2) < Slot(sp - 1) THEN 1 ELSE 0]
            /\ sp' = sp - 1
            /\ pc' = pc + 1
            /\ UNCHANGED <<_globals, phase, exc, status>>
    /\ UNCHANGED <<input, lex, ast, _object, here, stdout, stderr>>

run_JZ_inverted ==                   \* run_JZ branching when the value is nonzero
    /\ Op = JZ
    /\ sp' = sp - 1
    /\ pc' = IF Slot(sp - 1) # 0 THEN (pc + 1) + Byte(pc + 1) ELSE (pc + 1) + 1
    /\ UNCHANGED <<phase, exc, status>>
    /\ UNCHANGED <<input, lex, ast, _object, here, _globals, stack, stdout, stderr>>

run_JZ_keeps ==                      \* run_JZ without sp -= 1
    /\ Op = JZ
    /\ sp' = sp
    /\ pc' = IF Slot(sp - 1) = 0 THEN (pc + 1) + Byte(pc + 1) ELSE (pc + 1) + 1
    /\ UNCHANGED <<phase, exc, status>>
    /\ UNCHANGED <<input, lex, ast, _object, here, _globals, stack, stdout, stderr>>

run_JZ ==
    /\ Op = JZ
    /\ IF ~(InRange(sp - 1, StackSize) /\ InRange(pc + 1, ObjectSize))
       THEN /\ Die(Raised("IndexError", "run"))
            /\ pc' = pc + 1
            /\ sp' = sp - 1
       ELSE /\ sp' = sp - 1
            /\ pc' = IF Slot(sp - 1) = 0 THEN (pc + 1) + Byte(pc + 1)
                                         ELSE (pc + 1) + 1
            /\ UNCHANGED <<phase, exc, status>>
    /\ UNCHANGED <<input, lex, ast, _object, here, _globals, stack, stdout, stderr>>

run_JNZ_inverted ==                  \* run_JNZ branching when the value is 0
    /\ Op = JNZ
    /\ sp' = sp - 1
    /\ pc' = IF Slot(sp - 1) = 0 THEN (pc + 1) + Byte(pc + 1) ELSE (pc + 1) + 1
    /\ UNCHANGED <<phase, exc, status>>
    /\ UNCHANGED <<input, lex, ast, _object, here, _globals, stack, stdout, stderr>>

run_JNZ_past ==                      \* run_JNZ adding from the byte after the operand
    /\ Op = JNZ
    /\ sp' = sp - 1
    /\ pc' = IF Slot(sp - 1) # 0 THEN (pc + 2) + Byte(pc + 1) ELSE (pc + 1) + 1
    /\ UNCHANGED <<phase, exc, status>>
    /\ UNCHANGED <<input, lex, ast, _object, here, _globals, stack, stdout, stderr>>

run_JNZ ==
    /\ Op = JNZ
    /\ IF ~(InRange(sp - 1, StackSize) /\ InRange(pc + 1, ObjectSize))
       THEN /\ Die(Raised("IndexError", "run"))
            /\ pc' = pc + 1
            /\ sp' = sp - 1
       ELSE /\ sp' = sp - 1
            /\ pc' = IF Slot(sp - 1) # 0 THEN (pc + 1) + Byte(pc + 1)
                                         ELSE (pc + 1) + 1
            /\ UNCHANGED <<phase, exc, status>>
    /\ UNCHANGED <<input, lex, ast, _object, here, _globals, stack, stdout, stderr>>

run_JMP_skips ==                     \* run_JMP stepping over its operand
    /\ Op = JMP
    /\ pc' = (pc + 1) + 1
    /\ UNCHANGED <<phase, exc, status>>
    /\ UNCHANGED <<input, lex, ast, _object, here, _globals, stack, sp, stdout,
                   stderr>>

run_JMP_past ==                      \* run_JMP adding from the byte after the operand
    /\ Op = JMP
    /\ pc' = (pc + 2) + Byte(pc + 1)
    /\ UNCHANGED <<phase, exc, status>>
    /\ UNCHANGED <<input, lex, ast, _object, here, _globals, stack, sp, stdout,
                   stderr>>

run_JMP ==
    /\ Op = JMP
    /\ IF ~InRange(pc + 1, ObjectSize)
       THEN /\ Die(Raised("IndexError", "run"))
            /\ pc' = pc + 1
       ELSE /\ pc' = (pc + 1) + Byte(pc + 1)
            /\ UNCHANGED <<phase, exc, status>>
    /\ UNCHANGED <<input, lex, ast, _object, here, _globals, stack, sp, stdout,
                   stderr>>

run_HALT ==                          \* break: run() returns
    /\ Op = HALT
    /\ pc' = pc + 1
    /\ phase' = "halted"
    /\ UNCHANGED <<input, lex, ast, _object, here, _globals, stack, sp, exc,
                   stdout, stderr, status>>

(* Lines 471-475: the nonzero globals are printed and the process exits. *)
Report ==
    /\ phase = "halted"
    /\ stdout' = stdout \o report(_globals, 0)
    /\ status' = 0
    /\ phase' = "exit"
    /\ UNCHANGED <<input, lex, ast, _object, here, _globals, stack, sp, pc, exc,
                   stderr>>

Next ==
    \/ Program
    \/ Compile
    \/ StartRun
    \/ run_IFETCH
    \/ run_ISTORE
    \/ run_IPUSH
    \/ run_IPOP
    \/ run_IADD
    \/ run_ISUB
    \/ run_ILT
    \/ run_JZ
    \/ run_JNZ
    \/ run_JMP
    \/ run_HALT
    \/ Report

Spec == Init /\ [][Next]_vars

-----------------------------------------------------------------------------
(* The layout of the bytecode, from the AST alone: the number of bytes     *)
(* each node kind emits and the address each node's code starts at.        *)

RECURSIVE CodeLen(_)
CodeLen(x) ==
    CASE x.kind \in {VAR, CST} -> 2
      [] x.kind \in {ADD, SUB, LT} -> CodeLen(x.o1) + CodeLen(x.o2) + 1
      [] x.kind = SET -> CodeLen(x.o2) + 2
      [] x.kind = IF1 -> CodeLen(x.o1) + 2 + CodeLen(x.o2)
      [] x.kind = IF2 -> CodeLen(x.o1) + 2 + CodeLen(x.o2) + 2 + CodeLen(x.o3)
      [] x.kind = WHILE -> CodeLen(x.o1) + 2 + CodeLen(x.o2) + 2
      [] x.kind = DO -> CodeLen(x.o1) + CodeLen(x.o2) + 2
      [] x.kind = EMPTY -> 0
      [] x.kind = SEQ -> CodeLen(x.o1) + CodeLen(x.o2)
      [] x.kind \in {EXPR, PROG} -> CodeLen(x.o1) + 1
      [] OTHER -> 0

(* Every node of the tree under x with the address of its code, x's code   *)
(* starting at address a (the target of an assignment emits no code).      *)
RECURSIVE Places(_, _)
Places(x, a) ==
    <<[x |-> x, at |-> a]>> \o
    CASE x.kind \in {ADD, SUB, LT, SEQ, DO} ->
             Places(x.o1, a) \o Places(x.o2, a + CodeLen(x.o1))
      [] x.kind = SET -> Places(x.o2, a)
      [] x.kind \in {IF1, WHILE} ->
             Places(x.o1, a) \o Places(x.o2, a + CodeLen(x.o1) + 2)
      [] x.kind = IF2 ->
             Places(x.o1, a) \o Places(x.o2, a + CodeLen(x.o1) + 2)
             \o Places(x.o3, a + CodeLen(x.o1) + 2 + CodeLen(x.o2) + 2)
      [] x.kind \in {EXPR, PROG} -> Places(x.o1, a)
      [] OTHER -> <<>>

IsStmt(x) == x.kind \in {IF1, IF2, WHILE, DO, EMPTY, SEQ, EXPR}
Parsed == ast # NoNode                 \* program() returned a Node
Compiled == phase \in {"compiled", "run", "halted"} \/ (phase = "exit" /\ status = 0)
Succeeded == phase = "exit" /\ status = 0 /\ exc = NoExc /\ stderr = <<>>
G0 == Zeros(NGlobals)

-----------------------------------------------------------------------------
(* C1: after a successful run the report holds, for each global i = 0..25  *)
(* in increasing order, the line "<letter> = <value>" exactly when the     *)
(* final value of global i is nonzero, <letter> being the character        *)
(* 'a' + i.  The code prints the number ord('a') + i instead.              *)
RECURSIVE LetterReport(_, _)
LetterReport(G, i) ==
    IF i >= NGlobals THEN <<>>
    ELSE IF G[i] # 0
         THEN <<(<<LowerChars[i + 1], " ", "=", " ">> \o str(G[i]))>>
              \o LetterReport(G, i + 1)
         ELSE LetterReport(G, i + 1)

C1_ReportNamesLetters == Succeeded => stdout = LetterReport(_globals, 0)

(* C2: for a program that is one assignment chain v1=v2=...=vn=K; the run  *)
(* succeeds and every named variable ends with the value of K.  The chain  *)
(* is recognised on the Node the parser returned; K holds no assignment,   *)
(* and is evaluated with every global zero.                                *)
RECURSIVE ChainTargets(_)
ChainTargets(e) ==
    IF e.kind = SET THEN {e.o1.val} \cup ChainTargets(e.o2) ELSE {}

RECURSIVE ChainValue(_)
ChainValue(e) == IF e.kind = SET THEN ChainValue(e.o2) ELSE e

RECURSIVE Eval0(_)
Eval0(e) ==
    CASE e.kind = CST -> e.val
      [] e.kind = ADD -> Eval0(e.o1) + Eval0(e.o2)
      [] e.kind = SUB -> Eval0(e.o1) - Eval0(e.o2)
      [] e.kind = LT -> IF Eval0(e.o1) < Eval0(e.o2) THEN 1 ELSE 0
      [] OTHER -> 0

IsChain == Parsed /\ ast.o1.kind = EXPR /\ ast.o1.o1.kind = SET

C2_ChainAssignsAll ==
    (phase = "exit" /\ IsChain) =>
        /\ Succeeded
        /\ \A v \in ChainTargets(ast.o1.o1) :
               _globals[v] = Eval0(ChainValue(ast.o1.o1))

(* C3: when the VM is at the HALT instruction the stack is empty, and at   *)
(* the first and past the last byte of every statement's code sp is 0, on  *)
(* every path through it.                                                  *)
AtEdge(p) == pc = p.at \/ pc = p.at + CodeLen(p.x)

EdgesBalanced(P) == \A i \in 1..Len(P) : (IsStmt(P[i].x) /\ AtEdge(P[i])) => sp = 0

C3_StackBalanced ==
    phase = "run" =>
        /\ Op = HALT => sp = 0
        /\ EdgesBalanced(Places(ast, 0))

C3_Witness ==
    /\ phase = "run" /\ Op = HALT /\ sp = 0
    /\ \E i \in 1..Len(Places(ast, 0)) : Places(ast, 0)[i].x.kind = WHILE
    /\ \E i \in 1..Len(Places(ast, 0)) : Places(ast, 0)[i].x.kind = IF2
    /\ _globals[8] = 25

(* C4: an input with an unmatched parenthesis, a missing ";", a            *)
(* multi-character identifier that is no keyword, or tokens after one      *)
(* complete top-level statement is never parsed; and whenever program()    *)
(* returns no Node the outcome is the syntax error (the message, status    *)
(* 1), with no bytecode emitted, no VM step made, no global changed and    *)
(* nothing printed to standard output.  The four classes are read off the  *)
(* text and its tokens, not off the parser's verdict on the whole input.   *)
TokStep(R) ==                        \* one more sym, unless the list is complete
    IF R.done THEN R
    ELSE IF R.L.err THEN [R EXCEPT !.done = TRUE]
    ELSE IF R.L.sym = EOI
         THEN [R EXCEPT !.toks = Append(R.toks, EOI), !.done = TRUE]
         ELSE [L |-> next_sym(R.L), toks |-> Append(R.toks, R.L.sym), done |-> FALSE]

RECURSIVE TokRun(_, _)
TokRun(R, n) ==                      \* n times TokStep
    IF R.done \/ n = 0 THEN R
    ELSE IF n = 1 THEN TokStep(R)
    ELSE TokRun(TokRun(R, n \div 2), n - n \div 2)

TokList(L) ==                        \* the syms from L on, to EOI or a lexer error
    TokRun([L |-> L, toks |-> <<>>, done |-> FALSE], Len(L.stdin) + 3).toks

Tokens(t) == TokList(next_sym(LexInit(t)))

RECURSIVE ParenDepth(_, _, _)
ParenDepth(t, k, d) ==               \* -1 once a ")" has no "(" before it
    IF d < 0 THEN -1
    ELSE IF k > Len(t) THEN d
    ELSE ParenDepth(t, k + 1, IF t[k] = "(" THEN d + 1
                              ELSE IF t[k] = ")" THEN d - 1 ELSE d)

UnmatchedParen(t) == ParenDepth(t, 1, 0) # 0

IsIdChar(ch) == IsLower(ch) \/ ch = "_"
Keywords == {words[k] : k \in 1..4}

RECURSIVE RunEnd(_, _)
RunEnd(t, j) == IF j < Len(t) /\ IsIdChar(t[j + 1]) THEN RunEnd(t, j + 1) ELSE j

RECURSIVE LongIdFrom(_, _)
LongIdFrom(t, i) ==                  \* a run of two or more letters, no keyword
    IF i > Len(t) THEN FALSE
    ELSE IF ~IsIdChar(t[i]) THEN LongIdFrom(t, i + 1)
    ELSE \/ (RunEnd(t, i) > i /\ SubSeq(t, i, RunEnd(t, i)) \notin Keywords)
         \/ LongIdFrom(t, RunEnd(t, i) + 1)

LongIdentifier(t) == LongIdFrom(t, 1)

(* An operand followed by a token that neither continues nor ends the      *)
(* expression, or a ")" as the last token of the input.                    *)
MissingSemiIn(T) ==
    \/ \E k \in 1..(Len(T) - 1) :
          /\ T[k] \in {ID, INT}
          /\ T[k + 1] \notin {PLUS, MINUS, LESS, EQUAL, SEMI, RPAR}
    \/ Len(T) >= 2 /\ T[Len(T)] = EOI /\ T[Len(T) - 1] = RPAR

MissingSemi(t) == MissingSemiIn(Tokens(t))

(* A prefix that is a whole program, followed by a token other than else. *)
StartsTrailer(T) == T # <<EOI>> /\ (T = <<>> \/ T[1] # ELSE_SYM)

TrailingTokens(t) ==
    \E k \in 1..(Len(t) - 1) :
        /\ t[k] \in {";", "}"}
        /\ ~program(LexInit(SubSeq(t, 1, k))).L.err
        /\ StartsTrailer(Tokens(SubSeq(t, k + 1, Len(t))))

MustBeRejected(t) ==
    UnmatchedParen(t) \/ LongIdentifier(t) \/ MissingSemi(t) \/ TrailingTokens(t)

SyntaxErrorOutcome ==
    phase = "exit" /\ stderr = <<"syntax error">> /\ status = 1 /\ exc = NoExc

NothingDone ==
    /\ here = 0 /\ _object = Zeros(ObjectSize)
    /\ pc = 0 /\ sp = 0 /\ stack = Zeros(StackSize)
    /\ _globals = G0 /\ stdout = <<>>

C4_SyntaxErrorsAreFatal ==
    /\ phase = "parsed" => ~MustBeRejected(input)
    /\ (phase # "start" /\ ~Parsed) => (SyntaxErrorOutcome /\ NothingDone)
    /\ SyntaxErrorOutcome => (~Parsed /\ NothingDone)

C4_Witness ==
    /\ SyntaxErrorOutcome /\ NothingDone
    /\ TrailingTokens(input)
    /\ ~UnmatchedParen(input) /\ ~LongIdentifier(input) /\ ~MissingSemi(input)

-----------------------------------------------------------------------------
(* The addresses of the parts of a control statement whose code starts at  *)
(* p.at: the branch opcodes, the branches and the first address after it.  *)
PlacesOf(k) == SelectSeq(Places(ast, 0), LAMBDA p : p.x.kind = k)
Cond == Slot(sp - 1)                  \* the value a conditional jump pops
Within(a, lo, hi) == lo <= a /\ a < hi

W_jz(p) == p.at + CodeLen(p.x.o1)
W_body(p) == W_jz(p) + 2
W_jmp(p) == W_body(p) + CodeLen(p.x.o2)
W_exit(p) == W_jmp(p) + 2

D_cond(p) == p.at + CodeLen(p.x.o1)
D_jnz(p) == D_cond(p) + CodeLen(p.x.o2)
D_exit(p) == D_jnz(p) + 2

I_jz(p) == p.at + CodeLen(p.x.o1)
I_then(p) == I_jz(p) + 2
I_jmp(p) == I_then(p) + CodeLen(p.x.o2)    \* IF2 only; the end of an IF1
I_else(p) == I_jmp(p) + 2
I_end(p) == I_else(p) + CodeLen(p.x.o3)

Final(G) == Succeeded /\ _globals = G

(* C5: in the code of while (cond) body, cond is evaluated from the loop   *)
(* top straight to the JZ, the JZ continues in body exactly when cond is   *)
(* nonzero and at the first address after the loop when it is 0, body is   *)
(* entered only from that JZ, and the JMP after body returns to the loop   *)
(* top; { i=1; while (i<100) i=i+i; } ends with i = 128, the rest 0.       *)
C5_WhileStep ==
    phase = "run" =>
        \A i \in 1..Len(PlacesOf(WHILE)) :
            LET p == PlacesOf(WHILE)[i]
            IN  /\ (Within(pc, p.at, W_jz(p)) /\ phase' = "run")
                       => (pc < pc' /\ pc' <= W_jz(p))
                /\ pc = W_jz(p)
                       => pc' = IF Cond # 0 THEN W_body(p) ELSE W_exit(p)
                /\ (pc' = W_body(p) /\ ~Within(pc, W_body(p), W_jmp(p))
                        /\ CodeLen(p.x.o2) > 0)
                       => (pc = W_jz(p) /\ Cond # 0)
                /\ pc = W_jmp(p) => pc' = p.at

C5_While ==
    /\ [](phase = "exit" /\ input = Doubling => Final([G0 EXCEPT ![8] = 128]))
    /\ [][C5_WhileStep]_vars

C5_Witness ==
    /\ input = Doubling /\ phase = "run"
    /\ pc = W_exit(PlacesOf(WHILE)[1]) /\ _globals[8] = 128

(* C6: in the code of do body while (cond); the statement starts with      *)
(* body, cond is reached only out of body and evaluated straight to the    *)
(* JNZ, and the JNZ returns to the first instruction of body exactly when  *)
(* cond is nonzero and otherwise falls through to the first address after  *)
(* the loop; { i=1; do i=i+10; while (i<50); } ends with i = 51.           *)
C6_DoStep ==
    phase = "run" =>
        \A i \in 1..Len(PlacesOf(DO)) :
            LET p == PlacesOf(DO)[i]
            IN  /\ (Within(pc, D_cond(p), D_jnz(p)) /\ phase' = "run")
                       => (pc < pc' /\ pc' <= D_jnz(p))
                /\ (pc' = D_cond(p) /\ pc' # pc /\ CodeLen(p.x.o1) > 0)
                       => Within(pc, p.at, D_cond(p))
                /\ pc = D_jnz(p)
                       => pc' = IF Cond # 0 THEN p.at ELSE D_exit(p)

C6_DoWhile ==
    /\ [](phase = "exit" /\ input = DoLoop => Final([G0 EXCEPT ![8] = 51]))
    /\ [][C6_DoStep]_vars

C6_Witness ==
    /\ input = DoLoop /\ phase = "run"
    /\ pc = D_exit(PlacesOf(DO)[1]) /\ _globals[8] = 51

(* C7: in the code of if (cond) s1 else s2 the JZ continues in s1 exactly  *)
(* when cond is nonzero (negative included) and in s2 when it is 0, each   *)
(* branch is entered only from that JZ, and the JMP after s1 continues at  *)
(* the first address after the statement; without else the JZ continues    *)
(* in s1 or after the statement.  The gcd program ends with i = j = 25,    *)
(* { i=7; if (i<5) x=1; if (i<10) y=2; } with i = 7, y = 2 and x = 0.      *)
C7_IfStep ==
    phase = "run" =>
        /\ \A i \in 1..Len(PlacesOf(IF1)) :
               LET p == PlacesOf(IF1)[i]
               IN  /\ pc = I_jz(p)
                          => pc' = IF Cond # 0 THEN I_then(p) ELSE I_jmp(p)
                   /\ (pc' = I_then(p) /\ ~Within(pc, I_then(p), I_jmp(p))
                           /\ CodeLen(p.x.o2) > 0)
                          => (pc = I_jz(p) /\ Cond # 0)
        /\ \A i \in 1..Len(PlacesOf(IF2)) :
               LET p == PlacesOf(IF2)[i]
               IN  /\ pc = I_jz(p)
                          => pc' = IF Cond # 0 THEN I_then(p) ELSE I_else(p)
                   /\ (pc' = I_then(p) /\ ~Within(pc, I_then(p), I_jmp(p))
                           /\ CodeLen(p.x.o2) > 0)
                          => (pc = I_jz(p) /\ Cond # 0)
                   /\ (pc' = I_else(p) /\ ~Within(pc, I_else(p), I_end(p))
                           /\ CodeLen(p.x.o3) > 0)
                          => (pc = I_jz(p) /\ Cond = 0)
                   /\ pc = I_jmp(p) => pc' = I_end(p)

C7_IfElse ==
    /\ [](phase = "exit" /\ input = Gcd
              => Final([G0 EXCEPT ![8] = 25, ![9] = 25]))
    /\ [](phase = "exit" /\ input = TwoIfs
              => Final([G0 EXCEPT ![8] = 7, ![24] = 2]))
    /\ [](phase = "exit" /\ input = NegCond
              => Final([G0 EXCEPT ![0] = 1, ![2] = 1]))
    /\ [][C7_IfStep]_vars

C7_Witness ==
    /\ input = Gcd /\ phase = "run"
    /\ pc = I_end(PlacesOf(IF2)[1]) /\ _globals[8] = 25 /\ _globals[9] = 25

(* C8: ISTORE sets the global its operand names to the top of the stack    *)
(* and leaves sp, the stack, the other globals and the bytecode as they    *)
(* are; { i=1; while ((i=i+10)<50) ; } ends with i = 51.                   *)
C8_StoreStep ==
    (phase = "run" /\ Op = ISTORE /\ phase' = "run") =>
        /\ _globals' = [_globals EXCEPT ![Byte(pc + 1)] = Slot(sp - 1)]
        /\ sp' = sp /\ stack' = stack /\ _object' = _object
        /\ pc' = pc + 2

C8_StoreKeepsStack ==
    /\ [](phase = "exit" /\ input = AssignCond => Final([G0 EXCEPT ![8] = 51]))
    /\ [][C8_StoreStep]_vars

C8_Witness ==
    /\ input = AssignCond /\ phase = "run" /\ _globals[8] = 51
    /\ Byte(pc - 2) = ISTORE /\ sp = 1 /\ Slot(0) = 51

(* C9: for every integer literal n the lexer accepts, Const(n) compiles    *)
(* to IPUSH and the byte n and no failure but a syntax error is possible.  *)
(* The buffer holds signed bytes, so g raises OverflowError for n > 127.   *)
C9_EveryLiteralCompiles ==
    /\ exc # Raised("OverflowError", "g")
    /\ Compiled =>
           \A i \in 1..Len(PlacesOf(CST)) :
               LET p == PlacesOf(CST)[i]
               IN  Byte(p.at) = IPUSH /\ Byte(p.at + 1) = p.x.val

(* C10: every displacement byte holds target - its own address, the        *)
(* target being the address the statement's layout gives the branch; a     *)
(* taken branch sets pc to the address of the displacement byte plus the   *)
(* displacement, a branch not taken to the address after that byte.        *)
HoleHolds(h, dst) == Byte(h) = dst - h

C10_Displacements ==
    Compiled =>
        /\ \A i \in 1..Len(PlacesOf(IF1)) :
               LET p == PlacesOf(IF1)[i]
               IN  Byte(I_jz(p)) = JZ /\ HoleHolds(I_jz(p) + 1, I_jmp(p))
        /\ \A i \in 1..Len(PlacesOf(IF2)) :
               LET p == PlacesOf(IF2)[i]
               IN  /\ Byte(I_jz(p)) = JZ /\ HoleHolds(I_jz(p) + 1, I_else(p))
                   /\ Byte(I_jmp(p)) = JMP /\ HoleHolds(I_jmp(p) + 1, I_end(p))
        /\ \A i \in 1..Len(PlacesOf(WHILE)) :
               LET p == PlacesOf(WHILE)[i]
               IN  /\ Byte(W_jz(p)) = JZ /\ HoleHolds(W_jz(p) + 1, W_exit(p))
                   /\ Byte(W_jmp(p)) = JMP /\ HoleHolds(W_jmp(p) + 1, p.at)
        /\ \A i \in 1..Len(PlacesOf(DO)) :
               LET p == PlacesOf(DO)[i]
               IN  Byte(D_jnz(p)) = JNZ /\ HoleHolds(D_jnz(p) + 1, p.at)

C10_JumpStep ==
    (phase = "run" /\ phase' = "run") =>
        /\ Op = JZ => pc' = IF Cond = 0 THEN (pc + 1) + Byte(pc + 1) ELSE (pc + 1) + 1
        /\ Op = JNZ => pc' = IF Cond # 0 THEN (pc + 1) + Byte(pc + 1) ELSE (pc + 1) + 1
        /\ Op = JMP => pc' = (pc + 1) + Byte(pc + 1)

C10_JumpsAreHoleRelative ==
    /\ []C10_Displacements
    /\ [][C10_JumpStep]_vars

C10_Witness ==
    /\ input = DoLoop /\ phase = "run" /\ pc = PlacesOf(DO)[1].at
    /\ _globals[8] = 11
    /\ Byte(D_jnz(PlacesOf(DO)[1]) + 1) < 0

-----------------------------------------------------------------------------
(* c called a second time on the Node it has just compiled, from the       *)
(* generator state the first call left (here = the length of the first     *)
(* program, the buffer holding it).                                        *)
Recompile ==
    /\ phase = "compiled"
    /\ here = CodeLen(ast)
    /\ LET S == c(ast, [obj |-> _object, here |-> here, exc |-> NoExc])
       IN  /\ _object' = S.obj
           /\ here' = S.here
           /\ IF S.exc # NoExc
              THEN Die(S.exc)
              ELSE phase' = "compiled" /\ UNCHANGED <<exc, status>>
    /\ UNCHANGED <<input, lex, ast, _globals, stack, sp, pc, stdout, stderr>>

NextTwice == Next \/ Recompile

SpecTwice == Init /\ [][NextTwice]_vars

(* C11: compiling the same Node a second time leaves every byte of the     *)
(* first program (addresses 0 .. here - 1, all the VM started at address 0 *)
(* executes) as it was, and the bytes the second call emits are the same   *)
(* bytes again, one program length further on.                             *)
C11_RecompileStep ==
    (phase = "compiled" /\ here = CodeLen(ast) /\ here' # here) =>
        /\ \A a \in 0..(here - 1) : _object'[a] = _object[a]
        /\ exc' = NoExc =>
               /\ here' = here + here
               /\ \A a \in 0..(here - 1) : _object'[here + a] = _object[a]

C11_SameBytecode == [][C11_RecompileStep]_vars

C11_Witness ==
    /\ input = Gcd /\ phase = "compiled"
    /\ here = CodeLen(ast) + CodeLen(ast)
    /\ \A a \in 0..(CodeLen(ast) - 1) : _object[CodeLen(ast) + a] = _object[a]
    /\ _object[W_jmp(PlacesOf(WHILE)[1]) + 1] < 0

-----------------------------------------------------------------------------
(* C12: for every branch of a parsed program that fits the buffer, fix     *)
(* succeeds and the byte at the hole holds target - hole address, whatever *)
(* the distance.  The buffer holds signed bytes, so fix raises             *)
(* OverflowError for a distance above 127 or below -128.                   *)
Fits == Parsed /\ CodeLen(ast) <= ObjectSize

C12_EveryDistancePatches ==
    Fits => /\ exc # Raised("OverflowError", "fix")
            /\ C10_Displacements

-----------------------------------------------------------------------------
(* The branch opcodes of the compiled program and their holes: c calls     *)
(* hole() right after g(opcode), so the hole is the byte after the opcode. *)
SiteSet(k, at(_)) == {at(PlacesOf(k)[i]) : i \in 1..Len(PlacesOf(k))}
JumpSites ==
    SiteSet(IF1, I_jz) \cup SiteSet(IF2, I_jz) \cup SiteSet(IF2, I_jmp)
    \cup SiteSet(WHILE, W_jz) \cup SiteSet(WHILE, W_jmp) \cup SiteSet(DO, D_jnz)
HoleOf(site) == site + 1

Taken == (Op = JZ /\ Cond = 0) \/ (Op = JNZ /\ Cond # 0) \/ Op = JMP
TakenStep == phase = "run" /\ phase' = "run" /\ Taken
AddBase == pc' - Byte(HoleOf(pc))    \* the value the displacement was added to

(* C13 as stated: a taken JZ, JNZ or JMP adds the displacement to a pc     *)
(* that points one past the hole.                                          *)
C13_AddsPastHole == [][TakenStep => AddBase = HoleOf(pc) + 1]_vars

(* C13: a taken JZ, JNZ or JMP executes at a branch opcode of the layout   *)
(* and adds the displacement to a pc that points at the hole itself (the   *)
(* displacement byte, one past the opcode), not one past the hole.         *)
C13_AddsAtHole ==
    [][TakenStep => (pc \in JumpSites /\ AddBase = HoleOf(pc))]_vars

C13_Witness ==
    /\ input = Doubling /\ phase = "run"
    /\ pc = PlacesOf(WHILE)[1].at
    /\ _globals[8] = 2
    /\ Byte(HoleOf(W_jmp(PlacesOf(WHILE)[1]))) = pc - HoleOf(W_jmp(PlacesOf(WHILE)[1]))

-----------------------------------------------------------------------------
(* C14: IADD and ISUB wrap like native 32-bit integers: the instruction    *)
(* completes, leaves a+b or a-b reduced modulo 2^32 into the signed range  *)
(* in the slot of a, and execution continues.  The stack is an array of    *)
(* signed 32-bit items, which raises OverflowError instead.                *)
WrapAdd(a, b) ==
    IF AddFits(a, b) THEN a + b
    ELSE IF b > 0 THEN (a - IntMax - 1) + (b - IntMax - 1)
                  ELSE (a + IntMax + 1) + (b + IntMax + 1)

WrapSub(a, b) ==
    IF SubFits(a, b) THEN a - b
    ELSE IF b < 0 THEN (a - IntMax - 1) - (b + IntMax + 1)
                  ELSE (a + IntMax + 1) - (b - IntMax - 1)

C14_WrapStep ==
    (phase = "run" /\ Op \in {IADD, ISUB}) =>
        /\ phase' = "run" /\ exc' = NoExc
        /\ sp' = sp - 1
        /\ stack'[At(sp - 2, StackSize)] =
               IF Op = IADD THEN WrapAdd(Slot(sp - 2), Slot(sp - 1))
                            ELSE WrapSub(Slot(sp - 2), Slot(sp - 1))

C14_AddSubWrap == [][C14_WrapStep]_vars

-----------------------------------------------------------------------------
(* A sum input read from its text: term k is the digit at 2k + 1, the      *)
(* operator before it the character at 2k.                                 *)
NTerms(t) == (Len(t) - 2) \div 2
TermAt(t, k) == DigitVal(t[2 * k + 1])
OpAt(t, k) == IF t[2 * k] = "+" THEN ADD ELSE SUB

RECURSIVE FoldL(_, _)
FoldL(t, k) ==                       \* ((t1 op2 t2) op3 t3) ... tk
    IF k = 1 THEN TermAt(t, 1)
    ELSE IF OpAt(t, k) = ADD THEN FoldL(t, k - 1) + TermAt(t, k)
                             ELSE FoldL(t, k - 1) - TermAt(t, k)

RECURSIVE LeftTree(_, _)
LeftTree(t, k) ==                    \* the accumulated left operand as o1
    IF k = 1 THEN [kind |-> CST, val |-> TermAt(t, 1)]
    ELSE [kind |-> OpAt(t, k), o1 |-> LeftTree(t, k - 1),
          o2 |-> [kind |-> CST, val |-> TermAt(t, k)]]

RECURSIVE Postfix(_, _)
Postfix(t, k) ==                     \* left operand's code, right operand's, the opcode
    IF k = 1 THEN <<IPUSH, TermAt(t, 1)>>
    ELSE Postfix(t, k - 1)
         \o <<IPUSH, TermAt(t, k), IF OpAt(t, k) = ADD THEN IADD ELSE ISUB>>

XIndex == LetterIndex("x")

(* C15: for x = t1 op1 t2 ... tn; with each op + or -, the parser returns  *)
(* the left-nested tree, the generator emits the left operand's code       *)
(* before the right operand's, and the run leaves x = the left fold        *)
(* ((t1 op1 t2) op2 t3) ...; x=7-2-1; leaves x = 4.                        *)
C15_LeftFold ==
    input \in SumInputs =>
        /\ phase # "start" => (Parsed /\ ast.o1.o1.o2 = LeftTree(input, NTerms(input)))
        /\ phase \notin {"start", "parsed"} =>
               /\ exc = NoExc
               /\ LET code == Postfix(input, NTerms(input))
                  IN  \A a \in 1..Len(code) : _object[a - 1] = code[a]
        /\ phase = "exit" =>
               /\ Succeeded
               /\ _globals = [G0 EXCEPT ![XIndex] = FoldL(input, NTerms(input))]

C15_Witness ==
    /\ input = <<"x", "=", "7", "-", "2", "-", "1", ";">>
    /\ phase = "exit"
    /\ _globals[XIndex] = 4
    /\ stdout = << <<"1", "2", "0", " ", "=", " ", "4">> >>

-----------------------------------------------------------------------------
(* C16: an = is accepted only after a left-hand side that is one bare      *)
(* variable token.  Read off the tokens: an = that follows anything but an *)
(* identifier (a parenthesis, an integer), or an identifier that is the    *)
(* last term of a sum or comparison, ends in a syntax error; and every SET *)
(* node of every returned tree has a VAR node with index 0..25 as target.  *)
BadEqualAt(T, k) ==
    /\ T[k] = EQUAL
    /\ \/ k = 1
       \/ T[k - 1] # ID
       \/ k > 2 /\ T[k - 2] \in {PLUS, MINUS, LESS}

BadAssignIn(T) == \E k \in 1..Len(T) : BadEqualAt(T, k)
BadAssign(t) == BadAssignIn(Tokens(t))

TargetIsVar(x) == x.o1.kind = VAR /\ x.o1.val \in 0..(NGlobals - 1)

AllTargetsVar(P) == \A i \in 1..Len(P) : TargetIsVar(P[i].x)

C16_AssignNeedsBareVar ==
    /\ (phase # "start" /\ BadAssign(input)) => (SyntaxErrorOutcome /\ ~Parsed)
    /\ Parsed => AllTargetsVar(PlacesOf(SET))

C16_Witness ==
    /\ input = <<"(", "a", ")", "=", "1", ";">>
    /\ BadAssign(input)
    /\ SyntaxErrorOutcome

-----------------------------------------------------------------------------
(* The addresses of the opcodes of a node's own instructions, from the     *)
(* layout: every other byte of the program is an operand or a              *)
(* displacement.                                                           *)
OwnOpcodes(p) ==
    CASE p.x.kind \in {VAR, CST} -> {p.at}
      [] p.x.kind \in {ADD, SUB, LT} -> {p.at + CodeLen(p.x.o1) + CodeLen(p.x.o2)}
      [] p.x.kind = SET -> {p.at + CodeLen(p.x.o2)}
      [] p.x.kind = IF1 -> {I_jz(p)}
      [] p.x.kind = IF2 -> {I_jz(p), I_jmp(p)}
      [] p.x.kind = WHILE -> {W_jz(p), W_jmp(p)}
      [] p.x.kind = DO -> {D_jnz(p)}
      [] p.x.kind \in {EXPR, PROG} -> {p.at + CodeLen(p.x.o1)}
      [] OTHER -> {}

OpcodesOf(P) == UNION {OwnOpcodes(P[i]) : i \in 1..Len(P)}

Needs(op) ==                         \* the stack items the instruction pops or reads
    CASE op \in {IADD, ISUB, ILT} -> 2
      [] op \in {ISTORE, IPOP, JZ, JNZ} -> 1
      [] OTHER -> 0

(* C17: at every opcode fetch of a compiled program 0 <= pc < here, pc is  *)
(* the address of an opcode (never of an operand or displacement byte),    *)
(* the byte there is an opcode 0..10, sp is at least 0 and at least the    *)
(* number of items the instruction pops or reads, and the operand of an    *)
(* IFETCH or ISTORE is in 0..25.                                           *)
C17_FetchInvariant ==
    phase = "run" =>
        /\ 0 <= pc /\ pc < here
        /\ pc \in OpcodesOf(Places(ast, 0))
        /\ _object[pc] \in IFETCH..HALT
        /\ sp >= 0 /\ sp >= Needs(_object[pc])
        /\ _object[pc] \in {IFETCH, ISTORE} => _object[pc + 1] \in 0..(NGlobals - 1)

C17_Witness ==
    /\ input = Gcd /\ phase = "run"
    /\ pc = W_jz(PlacesOf(WHILE)[1]) /\ _object[pc] = JZ
    /\ sp = 1 /\ stack[0] = 0
    /\ _globals[8] = 25 /\ _globals[9] = 25

-----------------------------------------------------------------------------
(* The two conditions of a dangling-else input, read from its text. *)
CondA(t) == DigitVal(t[Len(T_set_a) + 1])
CondB(t) == DigitVal(t[Len(T_set_a) + 1 + Len(T_set_b) + 1])

SetTo(v, k) == [kind |-> SET, o1 |-> [kind |-> VAR, val |-> LetterIndex(v)],
                o2 |-> [kind |-> CST, val |-> k]]
ExprStmt(e) == [kind |-> EXPR, o1 |-> e]
VarNode(v) == [kind |-> VAR, val |-> LetterIndex(v)]

(* IfThen(a, IfThenElse(b, c=1;, d=1;)) *)
NearestIf ==
    [kind |-> IF1, o1 |-> VarNode("a"),
     o2 |-> [kind |-> IF2, o1 |-> VarNode("b"),
             o2 |-> ExprStmt(SetTo("c", 1)), o3 |-> ExprStmt(SetTo("d", 1))]]

DanglingFinal(A, B) ==
    [i \in 0..(NGlobals - 1) |->
        CASE i = LetterIndex("a") -> A
          [] i = LetterIndex("b") -> B
          [] i = LetterIndex("c") -> IF A # 0 /\ B # 0 THEN 1 ELSE 0
          [] i = LetterIndex("d") -> IF A # 0 /\ B = 0 THEN 1 ELSE 0
          [] OTHER -> 0]

(* C18: in if (a) if (b) c=1; else d=1; the else belongs to the inner if:  *)
(* the parser returns IfThen(a, IfThenElse(b, c=1;, d=1;)), so d=1 runs    *)
(* exactly when a is nonzero and b is zero, c=1 when both are nonzero, and *)
(* neither when a is zero.                                                 *)
C18_ElseBindsNearest ==
    input \in DanglingInputs =>
        /\ phase # "start" => (Parsed /\ ast.o1.o2 = NearestIf)
        /\ phase = "exit" =>
               (Succeeded /\ _globals = DanglingFinal(CondA(input), CondB(input)))

C18_Witness ==
    /\ input = DanglingText("7", "0")
    /\ phase = "exit"
    /\ _globals[LetterIndex("d")] = 1 /\ _globals[LetterIndex("c")] = 0
    /\ ast.o1.o2 = NearestIf

-----------------------------------------------------------------------------
(* C19: for every input, once program() is over either it has returned a   *)
(* Node or the outcome is the syntax error; the characters left on stdin   *)
(* are a tail of the input (each character is read once, front to back);   *)
(* a returned Node means the whole input was read up to EOI; and an input  *)
(* with more "{" than "}" tokens returns no Node, the block loop ending in *)
(* a syntax error at end of input instead of spinning.                     *)
IsTail(s, t) ==
    Len(s) <= Len(t) /\ s = SubSeq(t, Len(t) - Len(s) + 1, Len(t))

CountSym(T, s) == Cardinality({k \in 1..Len(T) : T[k] = s})

OpenBlockIn(T) == CountSym(T, LBRA) > CountSym(T, RBRA)

C19_ParsingTerminates ==
    phase # "start" =>
        /\ Parsed \/ SyntaxErrorOutcome
        /\ IsTail(lex.stdin, input)
        /\ Parsed => (lex.sym = EOI /\ lex.stdin = <<>>)
        /\ OpenBlockIn(Tokens(input)) => ~Parsed

-----------------------------------------------------------------------------
NoLoopIn(P) == \A i \in 1..Len(P) : P[i].x.kind \notin {WHILE, DO}
LoopFree == Parsed /\ NoLoopIn(Places(ast, 0))

AllForward == \A site \in JumpSites : Byte(HoleOf(site)) > 0

(* The process ends only by running to HALT and printing the report. *)
EndsThroughHalt == phase = "exit" => Succeeded

(* C20: for every parsed program without a while and without a do          *)
(* statement, every displacement of the compiled bytecode is positive,     *)
(* every step of the VM moves pc to a higher address within the emitted    *)
(* code (so no instruction is executed twice and only finitely many steps  *)
(* are made), and the run reaches HALT: the process ends in no other way.  *)
C20_LoopFreeHalts ==
    /\ [](LoopFree => EndsThroughHalt)
    /\ []((LoopFree /\ phase \in {"compiled", "run", "halted"}) => AllForward)
    /\ [][(LoopFree /\ phase = "run") => (pc < pc' /\ pc' <= here)]_vars

=============================================================================
